---- MODULE Spec2Model ----
(***************************************************************************)
(* GHClient (src/src/GHClient.ts): a key/value adapter over the GitHub     *)
(* repository-contents API.  Every async method is cut at its awaits: one  *)
(* action starts the call and issues its first request, one action per     *)
(* awaited request takes the answer and runs the code up to the next       *)
(* await or to the return.  A request that the code does not await stays   *)
(* in flight in `creates` and is answered by an action of its own.         *)
(***************************************************************************)
EXTENDS Integers, Sequences, FiniteSets, TLC

(* ------------------------------ bounds --------------------------------- *)
\* calls the caller of a sequential run makes, one after the other
MaxCalls == 3
\* calls each caller of a concurrent run makes
MaxRace == 1
\* fetch requests one putObject call is followed for
FetchCap == 11

Callers == {"c1", "c2"}

(* ------------------------------ inputs --------------------------------- *)
\* keys are character sequences: "d", "d/f", "" and ".."
KeyD == <<"d">>
KeyDF == <<"d", "/", "f">>
KeyEmpty == <<>>
KeyDots == <<".", ".">>
Keys == {KeyD, KeyDF, KeyEmpty, KeyDots}

\* values are byte sequences: "" and "hi"
ValEmpty == <<>>
ValHi == <<104, 105>>
Values == {ValEmpty, ValHi}

(* ----------------------------- constants ------------------------------- *)
MAX_API_ATTEMPTS == 10

BAD_CREDENTIALS_MESSAGE == "BAD_CREDENTIALS_MESSAGE"
INTERNAL_ERROR_MESSAGE == "INTERNAL_ERROR_MESSAGE"
GITHUB_API_ERROR_MESSAGE == "GITHUB_API_ERROR_MESSAGE"
OBJECT_NOT_FOUND_MESSAGE == "OBJECT_NOT_FOUND_MESSAGE"
INVALID_KEY_MESSAGE == "INVALID_KEY_MESSAGE"
REPLACE_FOLDER_MESSAGE == "Cannot replace value of a folder"
KEY_IS_FOLDER_MESSAGE == "Key points to a folder"
NOT_A_FOLDER_MESSAGE == "Not a folder"

(* ------------------------------ helpers -------------------------------- *)
\* helpers/GHClientHelpers.validStorageKey: non-empty, no traversal sequence
HasTraversal(k) ==
  \E i \in 1..(Len(k) - 1) : k[i] = "." /\ k[i + 1] = "."

validStorageKey(k) == Len(k) > 0 /\ ~HasTraversal(k)

\* base64 alphabet positions 0..63, Pad is '='
Pad == 64

RECURSIVE convertStringToBase64(_)
convertStringToBase64(s) ==
  IF Len(s) = 0 THEN <<>>
  ELSE IF Len(s) = 1 THEN
    <<s[1] \div 4, (s[1] % 4) * 16, Pad, Pad>>
  ELSE IF Len(s) = 2 THEN
    <<s[1] \div 4, (s[1] % 4) * 16 + (s[2] \div 16), (s[2] % 16) * 4, Pad>>
  ELSE
    <<s[1] \div 4, (s[1] % 4) * 16 + (s[2] \div 16),
      (s[2] % 16) * 4 + (s[3] \div 64), s[3] % 64>>
      \o convertStringToBase64(SubSeq(s, 4, Len(s)))

RECURSIVE convertBase64ToString(_)
convertBase64ToString(b) ==
  IF Len(b) < 4 THEN <<>>
  ELSE
    LET b1 == b[1] * 4 + (b[2] \div 16)
        b2 == (b[2] % 16) * 16 + (b[3] \div 4)
        b3 == (b[3] % 4) * 64 + b[4]
        rest == convertBase64ToString(SubSeq(b, 5, Len(b)))
    IN IF b[3] = Pad THEN <<b1>> \o rest
       ELSE IF b[4] = Pad THEN <<b1, b2>> \o rest
       ELSE <<b1, b2, b3>> \o rest

(* --------------------------- remote errors ----------------------------- *)
\* a RequestError of the remote client (has a status), or any other throw
ApiError(st) == [api |-> TRUE, status |-> st]
NetworkError == [api |-> FALSE, status |-> 0]

\* helpers/GHClientHelpers.isGithubApiError: the status-bearing shape
isGithubApiError(e) == e.api

\* failures the remote can answer any request with, whatever it stores
Faults == {ApiError(401), ApiError(500), NetworkError}

(* ------------------------- caller-visible results ---------------------- *)
Pending == [kind |-> "pending", value |-> <<>>, text |-> "", status |-> 0]
Void == [kind |-> "resolved", value |-> <<-1>>, text |-> "", status |-> 0]
Resolved(x) == [kind |-> "resolved", value |-> x, text |-> "", status |-> 0]
Rejected(m) == [kind |-> "rejected", value |-> <<>>, text |-> m, status |-> 0]
\* a rejection with the remote client's own error: its message, or the
\* error object itself
RejectedWith(e, how) ==
  [kind |-> "rejected", value |-> <<>>, text |-> how, status |-> e.status]

(* ------------------------------- state --------------------------------- *)
VARIABLES
  files,              \* the repository: path -> stored (base64) content
  creates,            \* create requests in flight that nobody awaits
  pc,                 \* where each caller's current call is suspended
  op, key, value,     \* the current (or last) call of each caller
  sha, content,       \* what the call took from its fetch response
  success,            \* the loop flag of putObject / removeObject
  remainingAttempts,  \* the loop counter of putObject / removeObject
  result,             \* how the call settled
  sent,               \* requests the current call has issued, by kind
  last,               \* the answer the current call received last
  stored,             \* the remote accepted a write of the current call
  calls,              \* calls each caller has started
  quota,              \* calls each caller is going to make
  quiet,              \* no create was in flight when the current call began
  log,                \* the resolved puts and removes of the current call's
                      \* key right before it, oldest first, two at most
  faulted             \* the remote has answered some request with a fault

vars == <<files, creates, pc, op, key, value, sha, content, success,
          remainingAttempts, result, sent, last, stored, calls, quota,
          quiet, log, faulted>>

(* ---------------------- the repository contents API -------------------- *)
\* contents and digests are number sequences; these stand for "no file" and
\* for JavaScript's undefined
NoFile == <<-1>>
NoSha == <<-1>>
NoContent == <<-1>>

\* the paths the repository can hold a file at, in listing order; "d/g" is
\* a file no caller names
PathDG == <<"d", "/", "g">>
PathOrder == <<KeyD, KeyDF, PathDG>>
Paths == {PathOrder[i] : i \in 1..Len(PathOrder)}

\* the digest names the content (a git blob id)
Sha(c) == <<-2>> \o c

\* the empty path is the repository root
IsUnder(dir, p) ==
  /\ Len(dir) < Len(p)
  /\ SubSeq(p, 1, Len(dir)) = dir
  /\ (Len(dir) = 0 \/ p[Len(dir) + 1] = "/")

IsFile(f, p) == p \in Paths /\ f[p] # NoFile
IsFolder(f, p) == \E q \in Paths : IsUnder(p, q) /\ f[q] # NoFile
UnderFile(f, p) == \E q \in Paths : IsUnder(q, p) /\ f[q] # NoFile

\* p is a child of dir, not a deeper descendant
Immediate(dir, p) ==
  IsUnder(dir, p) /\ \A i \in (Len(dir) + 2)..Len(p) : p[i] # "/"

Entry(f, p) == [path |-> p, sha |-> IF IsFile(f, p) THEN Sha(f[p]) ELSE NoSha]

FileData(f, p) ==
  [isArray |-> FALSE, sha |-> Sha(f[p]), content |-> f[p], entries |-> <<>>]

RECURSIVE Listing(_, _, _)
Listing(f, dir, i) ==
  IF i > Len(PathOrder) THEN <<>>
  ELSE IF Immediate(dir, PathOrder[i])
          /\ (IsFile(f, PathOrder[i]) \/ IsFolder(f, PathOrder[i]))
       THEN <<Entry(f, PathOrder[i])>> \o Listing(f, dir, i + 1)
       ELSE Listing(f, dir, i + 1)

Ok(data) == [ok |-> TRUE, data |-> data, error |-> NetworkError]
Fail(e) == [ok |-> FALSE,
            data |-> [isArray |-> FALSE, sha |-> NoSha, content |-> NoContent,
                      entries |-> <<>>],
            error |-> e]

\* GET /repos/{owner}/{repo}/contents/{path}
RemoteGet(f, p) ==
  IF IsFile(f, p) THEN
    Ok(FileData(f, p))
  ELSE IF IsFolder(f, p) THEN
    Ok([isArray |-> TRUE, sha |-> NoSha, content |-> NoContent,
        entries |-> Listing(f, p, 1)])
  ELSE Fail(ApiError(404))

\* PUT /repos/{owner}/{repo}/contents/{path}: an update needs the digest of
\* what is stored, a create needs the path to be free
RemotePut(f, p, c, s) ==
  IF IsFile(f, p) THEN
    IF s = NoSha THEN [files |-> f, reply |-> Fail(ApiError(422))]
    ELSE IF s # Sha(f[p]) THEN [files |-> f, reply |-> Fail(ApiError(409))]
    ELSE [files |-> [f EXCEPT ![p] = c], reply |-> Ok(FileData([f EXCEPT ![p] = c], p))]
  ELSE IF s # NoSha THEN [files |-> f, reply |-> Fail(ApiError(409))]
  ELSE IF p \notin Paths \/ IsFolder(f, p) \/ UnderFile(f, p)
    THEN [files |-> f, reply |-> Fail(ApiError(422))]
  ELSE [files |-> [f EXCEPT ![p] = c], reply |-> Ok(FileData([f EXCEPT ![p] = c], p))]

\* DELETE /repos/{owner}/{repo}/contents/{path}: needs the digest
RemoteDelete(f, p, s) ==
  IF IsFile(f, p) THEN
    IF s = NoSha THEN [files |-> f, reply |-> Fail(ApiError(422))]
    ELSE IF s # Sha(f[p]) THEN [files |-> f, reply |-> Fail(ApiError(409))]
    ELSE [files |-> [f EXCEPT ![p] = NoFile], reply |-> Ok(FileData(f, p))]
  ELSE IF IsFolder(f, p) THEN [files |-> f, reply |-> Fail(ApiError(422))]
  ELSE [files |-> f, reply |-> Fail(ApiError(404))]

\* the remote answers on the merits, or with a fault that changes nothing
Injected == {[files |-> files, reply |-> Fail(e)] : e \in Faults}

\* a fetch sent with the DELETE verb and the digest of what is stored
GetOutcomesDeleting(p) ==
  {RemoteDelete(files, p, IF IsFile(files, p) THEN Sha(files[p]) ELSE NoSha)}
    \cup Injected

GetOutcomes(p) == {[files |-> files, reply |-> RemoteGet(files, p)]} \cup Injected
PutOutcomes(p, c, s) == {RemotePut(files, p, c, s)} \cup Injected
DeleteOutcomes(p, s) == {RemoteDelete(files, p, s)} \cup Injected

IsFault(o) == o \in Injected /\ o.reply.error \in Faults /\ ~o.reply.ok

(* ------------------------------ bookkeeping ---------------------------- *)
NoneSent == [fetch |-> 0, create |-> 0, replace |-> 0, delete |-> 0]

\* a caller makes its calls one after the other
CanCall(c) == pc[c] \in {"idle", "done"} /\ calls[c] < quota[c]

Record(c) ==
  [op |-> op[c], key |-> key[c], value |-> value[c],
   created |-> sent[c].create > 0, quiet |-> quiet[c]]

Mutated(c) ==
  pc[c] = "done" /\ op[c] \in {"put", "remove"} /\ result[c].kind = "resolved"

LastTwo(q) == IF Len(q) > 2 THEN Tail(q) ELSE q

\* the part of a call's start that is the same for the four methods
Begin(c, o, k, v) ==
  /\ CanCall(c)
  /\ calls' = [calls EXCEPT ![c] = @ + 1]
  /\ quiet' = [quiet EXCEPT ![c] = creates = {}]
  /\ log' = [log EXCEPT ![c] =
               IF Mutated(c) /\ key[c] = k THEN LastTwo(Append(@, Record(c)))
               ELSE <<>>]
  /\ op' = [op EXCEPT ![c] = o]
  /\ key' = [key EXCEPT ![c] = k]
  /\ value' = [value EXCEPT ![c] = v]
  /\ sha' = [sha EXCEPT ![c] = NoSha]
  /\ content' = [content EXCEPT ![c] = NoContent]
  /\ success' = [success EXCEPT ![c] = FALSE]
  /\ last' = [last EXCEPT ![c] = "none"]
  /\ stored' = [stored EXCEPT ![c] = FALSE]
  /\ UNCHANGED <<files, creates, faulted, quota>>

AnswerKind(r) ==
  IF r.ok THEN (IF r.data.isArray THEN "folder" ELSE "file")
  ELSE IF ~r.error.api THEN "thrown"
  ELSE CASE r.error.status = 401 -> "401"
         [] r.error.status = 404 -> "404"
         [] r.error.status = 409 -> "409"
         [] r.error.status = 422 -> "422"
         [] OTHER -> "500"

\* how an answer is booked: what the remote holds now, whether it was a fault
Answered(c, o) ==
  /\ files' = o.files
  /\ faulted' = (faulted \/ IsFault(o))
  /\ last' = [last EXCEPT ![c] = AnswerKind(o.reply)]

Truthy(x) == x # NoContent /\ Len(x) > 0

(* ------------------------------ putObject ------------------------------ *)
\* a key check that only looks for the empty key
PutKeyNonEmpty(k) == Len(k) > 0

\* line 52
PutKeyOk(k) == validStorageKey(k)

PutObject(c, k, v) ==
  /\ Begin(c, "put", k, v)
  /\ remainingAttempts' = [remainingAttempts EXCEPT ![c] = MAX_API_ATTEMPTS]
  /\ IF PutKeyOk(k)
     THEN /\ pc' = [pc EXCEPT ![c] = "put_get"]
          /\ result' = [result EXCEPT ![c] = Pending]
          /\ sent' = [sent EXCEPT ![c] = [NoneSent EXCEPT !.fetch = 1]]
     ELSE /\ pc' = [pc EXCEPT ![c] = "done"]
          /\ result' = [result EXCEPT ![c] = Rejected(INVALID_KEY_MESSAGE)]
          /\ sent' = [sent EXCEPT ![c] = NoneSent]

\* the loop body without the folder branch of line 62
PutAfterGetNoFolder(r, remaining) ==
  IF r.ok THEN
    IF Truthy(r.data.sha) THEN "replace" ELSE "success"
  ELSE IF ~isGithubApiError(r.error) THEN "internal"
  ELSE IF r.error.status = 404 THEN "create"
  ELSE IF r.error.status = 401 THEN "credentials"
  ELSE IF remaining > 0 THEN "again"
  ELSE "exhausted"

\* lines 56-76: what the loop body does with the fetch's answer
PutAfterGet(r, remaining) ==
  IF r.ok THEN
    IF Truthy(r.data.sha) THEN "replace"
    ELSE IF r.data.isArray THEN "folder"
    ELSE "success"
  ELSE IF ~isGithubApiError(r.error) THEN "internal"
  ELSE IF r.error.status = 404 THEN "create"
  ELSE IF r.error.status = 401 THEN "credentials"
  ELSE IF remaining > 0 THEN "again"
  ELSE "exhausted"

\* lines 62-76: how putObject settles
PutResult(step) ==
  CASE step = "folder" -> Rejected(REPLACE_FOLDER_MESSAGE)
    [] step = "internal" -> Rejected(INTERNAL_ERROR_MESSAGE)
    [] step = "credentials" -> Rejected(BAD_CREDENTIALS_MESSAGE)
    [] step = "exhausted" -> Rejected(GITHUB_API_ERROR_MESSAGE)
    [] step \in {"success", "create"} -> Void
    [] OTHER -> Pending

\* line 69: the create request is issued and not awaited
CreateRequest(c) ==
  [caller |-> c, call |-> calls[c], key |-> key[c],
   content |-> convertStringToBase64(value[c])]

PutGetReply(c) ==
  /\ pc[c] = "put_get"
  /\ \E o \in GetOutcomes(key[c]) :
       LET step == PutAfterGet(o.reply, remainingAttempts[c]) IN
       /\ step = "again" => sent[c].fetch < FetchCap
       /\ Answered(c, o)
       /\ pc' = [pc EXCEPT ![c] =
                   CASE step = "replace" -> "put_replace"
                     [] step = "again" -> "put_get"
                     [] OTHER -> "done"]
       /\ result' = [result EXCEPT ![c] = PutResult(step)]
       /\ sha' = [sha EXCEPT ![c] = IF o.reply.ok THEN o.reply.data.sha ELSE @]
       /\ success' = [success EXCEPT ![c] = step \in {"success", "create"}]
       /\ creates' = IF step = "create" THEN creates \cup {CreateRequest(c)}
                     ELSE creates
       /\ sent' = [sent EXCEPT ![c] =
                     CASE step = "replace" -> [@ EXCEPT !.replace = @ + 1]
                       [] step = "create" -> [@ EXCEPT !.create = @ + 1]
                       [] step = "again" -> [@ EXCEPT !.fetch = @ + 1]
                       [] OTHER -> @]
       /\ UNCHANGED <<op, key, value, content, remainingAttempts, stored, calls, quota, quiet, log>>

\* lines 61-63 with 165-175: replaceObjectOctokit turns a failure into
\* `false`, which putObject does not look at: success is set either way
PutReplaceReply(c) ==
  /\ pc[c] = "put_replace"
  /\ \E o \in PutOutcomes(key[c], convertStringToBase64(value[c]), sha[c]) :
       /\ Answered(c, o)
       /\ stored' = [stored EXCEPT ![c] = o.reply.ok]
       /\ pc' = [pc EXCEPT ![c] = "done"]
       /\ success' = [success EXCEPT ![c] = TRUE]
       /\ result' = [result EXCEPT ![c] = PutResult("success")]
       /\ UNCHANGED <<creates, op, key, value, sha, content, remainingAttempts,
                      sent, calls, quota, quiet, log>>

\* lines 177-187: the answer to a create reaches uploadNewObjectOctokit, whose
\* promise nobody holds
CreateLands ==
  \E q \in creates :
    \E o \in PutOutcomes(q.key, q.content, NoSha) :
      /\ creates' = creates \ {q}
      /\ files' = o.files
      /\ faulted' = (faulted \/ IsFault(o))
      /\ last' = [last EXCEPT ![q.caller] =
                    IF q.call = calls[q.caller] THEN AnswerKind(o.reply) ELSE @]
      /\ stored' = [stored EXCEPT ![q.caller] =
                      @ \/ (q.call = calls[q.caller] /\ o.reply.ok)]
      /\ UNCHANGED <<pc, op, key, value, sha, content, success,
                     remainingAttempts, result, sent, calls, quota, quiet,
                     log>>

(* ----------------------------- removeObject ---------------------------- *)
\* line 83
RemoveKeyOk(k) == validStorageKey(k)

RemoveObject(c, k) ==
  /\ Begin(c, "remove", k, ValEmpty)
  /\ remainingAttempts' = [remainingAttempts EXCEPT ![c] = MAX_API_ATTEMPTS]
  /\ IF RemoveKeyOk(k)
     THEN /\ pc' = [pc EXCEPT ![c] = "remove_get"]
          /\ result' = [result EXCEPT ![c] = Pending]
          /\ sent' = [sent EXCEPT ![c] = [NoneSent EXCEPT !.fetch = 1]]
     ELSE /\ pc' = [pc EXCEPT ![c] = "done"]
          /\ result' = [result EXCEPT ![c] = Rejected(INVALID_KEY_MESSAGE)]
          /\ sent' = [sent EXCEPT ![c] = NoneSent]

\* a catch block that reports every other status as putObject does
RemoveCatchGeneric(e) ==
  IF ~isGithubApiError(e) THEN Rejected(INTERNAL_ERROR_MESSAGE)
  ELSE IF e.status = 404 THEN Rejected(GITHUB_API_ERROR_MESSAGE)
  ELSE IF e.status = 401 THEN Rejected(BAD_CREDENTIALS_MESSAGE)
  ELSE Rejected(GITHUB_API_ERROR_MESSAGE)

\* lines 91-100: the catch block, and what follows the loop once the flag
\* is set
RemoveCatch(e) ==
  IF ~isGithubApiError(e) THEN Rejected(INTERNAL_ERROR_MESSAGE)
  ELSE IF e.status = 404 THEN Rejected(GITHUB_API_ERROR_MESSAGE)
  ELSE IF e.status = 401 THEN Rejected(BAD_CREDENTIALS_MESSAGE)
  ELSE RejectedWith(e, "error.message")

\* a catch block that leaves the flag alone
RemoveSuccessNever(e) == FALSE

\* line 95: success = true
RemoveSuccess(e) == isGithubApiError(e) /\ e.status = 404

\* lines 84 and 91-98: after a caught error the call returns from the catch
\* block, or the loop condition lets the body run again, or the loop ends
RemoveStep(e, remaining) ==
  IF ~isGithubApiError(e) \/ e.status # 404 THEN "return"
  ELSE IF ~RemoveSuccess(e) /\ remaining > 0 THEN "again"
  ELSE "exit"

\* a delete that is sent without the digest
DeleteShaMissing(data) == NoSha

\* line 89: the delete carries the digest of the fetch just made
DeleteSha(data) == data.sha

\* a return that decodes the content first, as getObject does
RemoveReturnDecoded(c) == Resolved(convertBase64ToString(content[c]))

\* line 90
RemoveReturn(c) == Resolved(content[c])

RemoveGetReply(c) ==
  /\ pc[c] = "remove_get"
  /\ \E o \in GetOutcomes(key[c]) :
       /\ Answered(c, o)
       /\ IF o.reply.ok
          THEN /\ pc' = [pc EXCEPT ![c] = "remove_delete"]
               /\ sha' = [sha EXCEPT ![c] = DeleteSha(o.reply.data)]
               /\ content' = [content EXCEPT ![c] = o.reply.data.content]
               /\ sent' = [sent EXCEPT ![c] = [@ EXCEPT !.delete = @ + 1]]
               /\ UNCHANGED <<result, success>>
          ELSE LET step == RemoveStep(o.reply.error, remainingAttempts[c]) IN
               /\ step = "again" => sent[c].fetch < FetchCap
               /\ pc' = [pc EXCEPT ![c] =
                           IF step = "again" THEN "remove_get" ELSE "done"]
               /\ result' = [result EXCEPT ![c] =
                               IF step = "again" THEN @
                               ELSE RemoveCatch(o.reply.error)]
               /\ success' = [success EXCEPT ![c] =
                                step # "return" /\ RemoveSuccess(o.reply.error)]
               /\ sent' = [sent EXCEPT ![c] =
                             IF step = "again" THEN [@ EXCEPT !.fetch = @ + 1]
                             ELSE @]
               /\ UNCHANGED <<sha, content>>
       /\ UNCHANGED <<creates, op, key, value, remainingAttempts, stored, calls, quota, quiet, log>>

RemoveDeleteReply(c) ==
  /\ pc[c] = "remove_delete"
  /\ \E o \in DeleteOutcomes(key[c], sha[c]) :
       /\ Answered(c, o)
       /\ stored' = [stored EXCEPT ![c] = o.reply.ok]
       /\ LET step == IF o.reply.ok THEN "return"
                      ELSE RemoveStep(o.reply.error, remainingAttempts[c]) IN
          /\ step = "again" => sent[c].fetch < FetchCap
          /\ pc' = [pc EXCEPT ![c] =
                      IF step = "again" THEN "remove_get" ELSE "done"]
          /\ result' = [result EXCEPT ![c] =
                          IF o.reply.ok THEN RemoveReturn(c)
                          ELSE IF step = "again" THEN @
                          ELSE RemoveCatch(o.reply.error)]
          /\ success' = [success EXCEPT ![c] =
                           ~o.reply.ok /\ step # "return"
                           /\ RemoveSuccess(o.reply.error)]
          /\ sent' = [sent EXCEPT ![c] =
                        IF step = "again" THEN [@ EXCEPT !.fetch = @ + 1]
                        ELSE @]
       /\ UNCHANGED <<creates, op, key, value, sha, content, remainingAttempts,
                      calls, quota, quiet, log>>

(* ------------------------------- getObject ----------------------------- *)
\* line 107
GetKeyOk(k) == validStorageKey(k)

GetObject(c, k) ==
  /\ Begin(c, "get", k, ValEmpty)
  /\ IF GetKeyOk(k)
     THEN /\ pc' = [pc EXCEPT ![c] = "get_get"]
          /\ result' = [result EXCEPT ![c] = Pending]
          /\ sent' = [sent EXCEPT ![c] = [NoneSent EXCEPT !.fetch = 1]]
     ELSE /\ pc' = [pc EXCEPT ![c] = "done"]
          /\ result' = [result EXCEPT ![c] = Rejected(INVALID_KEY_MESSAGE)]
          /\ sent' = [sent EXCEPT ![c] = NoneSent]
  /\ UNCHANGED remainingAttempts

\* lines 109-123
\* a catch block that does not tell a missing object apart
GetResultGeneric(r) ==
  IF r.ok THEN
    IF r.data.isArray THEN Rejected(KEY_IS_FOLDER_MESSAGE)
    ELSE IF Truthy(r.data.content)
      THEN Resolved(convertBase64ToString(r.data.content))
    ELSE Rejected(GITHUB_API_ERROR_MESSAGE)
  ELSE IF ~isGithubApiError(r.error) THEN Rejected(INTERNAL_ERROR_MESSAGE)
  ELSE IF r.error.status = 401 THEN Rejected(BAD_CREDENTIALS_MESSAGE)
  ELSE Rejected(GITHUB_API_ERROR_MESSAGE)

GetResult(r) ==
  IF r.ok THEN
    IF r.data.isArray THEN Rejected(KEY_IS_FOLDER_MESSAGE)
    ELSE IF Truthy(r.data.content)
      THEN Resolved(convertBase64ToString(r.data.content))
    ELSE Rejected(GITHUB_API_ERROR_MESSAGE)
  ELSE IF ~isGithubApiError(r.error) THEN Rejected(INTERNAL_ERROR_MESSAGE)
  ELSE IF r.error.status = 404 THEN Rejected(OBJECT_NOT_FOUND_MESSAGE)
  ELSE IF r.error.status = 401 THEN Rejected(BAD_CREDENTIALS_MESSAGE)
  ELSE Rejected(GITHUB_API_ERROR_MESSAGE)

GetGetReply(c) ==
  /\ pc[c] = "get_get"
  /\ \E o \in GetOutcomes(key[c]) :
       /\ Answered(c, o)
       /\ pc' = [pc EXCEPT ![c] = "done"]
       /\ result' = [result EXCEPT ![c] = GetResult(o.reply)]
       /\ content' = [content EXCEPT ![c] =
                        IF o.reply.ok THEN o.reply.data.content ELSE @]
       /\ UNCHANGED <<creates, op, key, value, sha, success, remainingAttempts,
                      sent, stored, calls, quota, quiet, log>>

(* ------------------------------ listObjects ---------------------------- *)
\* line 127: no key check, the request goes out at once
ListObjects(c, k) ==
  /\ Begin(c, "list", k, ValEmpty)
  /\ pc' = [pc EXCEPT ![c] = "list_get"]
  /\ result' = [result EXCEPT ![c] = Pending]
  /\ sent' = [sent EXCEPT ![c] = [NoneSent EXCEPT !.fetch = 1]]
  /\ UNCHANGED remainingAttempts

RECURSIVE Reverse(_)
Reverse(q) == IF Len(q) = 0 THEN <<>> ELSE Append(Reverse(Tail(q)), Head(q))

\* a listing handed on in the opposite order
ListResultReversed(r) ==
  IF r.ok THEN
    IF ~r.data.isArray THEN Rejected(NOT_A_FOLDER_MESSAGE)
    ELSE Resolved(Reverse(r.data.entries))
  ELSE RejectedWith(r.error, "error")

\* lines 127-129: nothing catches what the request throws
ListResult(r) ==
  IF r.ok THEN
    IF ~r.data.isArray THEN Rejected(NOT_A_FOLDER_MESSAGE)
    ELSE Resolved(r.data.entries)
  ELSE RejectedWith(r.error, "error")

ListGetReply(c) ==
  /\ pc[c] = "list_get"
  /\ \E o \in GetOutcomes(key[c]) :
       /\ Answered(c, o)
       /\ pc' = [pc EXCEPT ![c] = "done"]
       /\ result' = [result EXCEPT ![c] = ListResult(o.reply)]
       /\ UNCHANGED <<creates, op, key, value, sha, content, success,
                      remainingAttempts, sent, stored, calls, quota, quiet, log>>

(* ---------------------------- specification ---------------------------- *)
\* what the repository holds when the client is constructed
Empty == [p \in Paths |-> NoFile]
InitialFiles ==
  {Empty,
   [Empty EXCEPT ![KeyDF] = convertStringToBase64(ValHi)],
   [Empty EXCEPT ![KeyDF] = convertStringToBase64(ValHi),
                 ![PathDG] = convertStringToBase64(ValEmpty)]}

Start ==
  /\ files \in InitialFiles
  /\ creates = {}
  /\ pc = [c \in Callers |-> "idle"]
  /\ op = [c \in Callers |-> "none"]
  /\ key = [c \in Callers |-> KeyEmpty]
  /\ value = [c \in Callers |-> ValEmpty]
  /\ sha = [c \in Callers |-> NoSha]
  /\ content = [c \in Callers |-> NoContent]
  /\ success = [c \in Callers |-> FALSE]
  /\ remainingAttempts = [c \in Callers |-> MAX_API_ATTEMPTS]
  /\ result = [c \in Callers |-> Pending]
  /\ sent = [c \in Callers |-> NoneSent]
  /\ last = [c \in Callers |-> "none"]
  /\ stored = [c \in Callers |-> FALSE]
  /\ calls = [c \in Callers |-> 0]
  /\ quiet = [c \in Callers |-> TRUE]
  /\ log = [c \in Callers |-> <<>>]
  /\ faulted = FALSE

\* one caller makes its calls in sequence
Init == Start /\ quota = [c \in Callers |-> IF c = "c1" THEN MaxCalls ELSE 0]

\* every caller makes its calls while the others make theirs
InitRace == Start /\ quota = [c \in Callers |-> MaxRace]

Next ==
  \/ \E c \in Callers, k \in Keys, v \in Values : PutObject(c, k, v)
  \/ \E c \in Callers : PutGetReply(c)
  \/ \E c \in Callers : PutReplaceReply(c)
  \/ CreateLands
  \/ \E c \in Callers, k \in Keys : RemoveObject(c, k)
  \/ \E c \in Callers : RemoveGetReply(c)
  \/ \E c \in Callers : RemoveDeleteReply(c)
  \/ \E c \in Callers, k \in Keys : GetObject(c, k)
  \/ \E c \in Callers : GetGetReply(c)
  \/ \E c \in Callers, k \in Keys : ListObjects(c, k)
  \/ \E c \in Callers : ListGetReply(c)

Spec == Init /\ [][Next]_vars

SpecRace == InitRace /\ [][Next]_vars

TypeOK ==
  /\ pc \in [Callers -> {"idle", "put_get", "put_replace", "remove_get",
                         "remove_delete", "get_get", "list_get", "done"}]
  /\ \A c \in Callers : remainingAttempts[c] = MAX_API_ATTEMPTS

(* ------------------------------- claims -------------------------------- *)
Others(c) == Callers \ {c}
Alone(c) == \A d \in Others(c) : calls[d] = 0
Settled(c) == pc[c] = "done"
OwnCreateInFlight(c) ==
  \E q \in creates : q.caller = c /\ q.call = calls[c]

\* C1: one putObject call issues at most MAX_API_ATTEMPTS (10) fetch
\* requests, whatever the remote answers.
C1_BoundedRetry ==
  \A c \in Callers : op[c] = "put" => sent[c].fetch <= MAX_API_ATTEMPTS

\* C2: with callers writing the same key at once and a remote that answers
\* every request on its merits, a putObject that went the overwrite way and
\* resolved has had its overwrite accepted by the remote, or the key holds
\* its value by another caller's write.
C2_RaceAbsorbed ==
  \A c \in Callers :
    (Settled(c) /\ op[c] = "put" /\ result[c].kind = "resolved"
       /\ sent[c].replace > 0 /\ ~faulted)
      => (stored[c] \/ files[key[c]] = convertStringToBase64(value[c]))

\* C3: a caller on its own, a remote that answers on the merits: after
\* putObject(key, v), its first call, resolved for a key that did not exist,
\* getObject(key) resolves to v.
C3_RoundTrip ==
  \A c \in Callers :
    (Settled(c) /\ op[c] = "get" /\ Alone(c) /\ ~faulted /\ calls[c] = 2
       /\ Len(log[c]) = 1 /\ log[c][1].op = "put" /\ log[c][1].created
       /\ log[c][1].key = key[c])
      => result[c] = Resolved(log[c][1].value)

\* C4: a caller on its own, a remote that answers on the merits: after
\* putObject(key, v1) and then putObject(key, v2) resolved, getObject(key)
\* resolves to v2.
C4_SequentialOverwrite ==
  \A c \in Callers :
    (Settled(c) /\ op[c] = "get" /\ Alone(c) /\ ~faulted /\ calls[c] = 3
       /\ Len(log[c]) = 2 /\ log[c][1].op = "put" /\ log[c][2].op = "put"
       /\ log[c][1].key = key[c] /\ log[c][2].key = key[c])
      => result[c] = Resolved(log[c][2].value)

\* C5: a removeObject whose fetch was answered 404 resolves, with no value,
\* and has issued no delete request.
C5_RemoveMissing ==
  \A c \in Callers :
    (Settled(c) /\ op[c] = "remove" /\ last[c] = "404" /\ sent[c].delete = 0)
      => (result[c] = Void /\ sent[c].fetch = 1)

\* C6: a removeObject resolves exactly when its delete was accepted, and then
\* to the base64 content its fetch returned, having sent the digest of that
\* content in its one delete request; with no create in flight the key is
\* then no file, and a getObject of the key that follows rejects with
\* object-not-found when the remote answers on the merits.
C6_RemoveExisting ==
  \A c \in Callers :
    /\ (Settled(c) /\ op[c] = "remove")
         => /\ stored[c] <=> result[c].kind = "resolved"
            /\ stored[c] =>
                 /\ result[c] = Resolved(content[c])
                 /\ Truthy(sha[c]) /\ sha[c] = Sha(content[c])
                 /\ sent[c].fetch = 1 /\ sent[c].delete = 1
                 /\ (Alone(c) /\ quiet[c]) => ~IsFile(files, key[c])
    /\ (Settled(c) /\ op[c] = "get" /\ Alone(c) /\ ~faulted /\ Len(log[c]) > 0
          /\ log[c][Len(log[c])].op = "remove" /\ log[c][Len(log[c])].quiet
          /\ log[c][Len(log[c])].key = key[c])
         => result[c] = Rejected(OBJECT_NOT_FOUND_MESSAGE)

\* a file was removed, its encoded content returned, and the key read again
C6_Witness ==
  \E c \in Callers :
    /\ Settled(c) /\ op[c] = "get" /\ Alone(c) /\ ~faulted /\ Len(log[c]) = 2
    /\ log[c][1].op = "put" /\ log[c][1].value = ValHi /\ log[c][1].key = key[c]
    /\ log[c][2].op = "remove" /\ log[c][2].quiet /\ log[c][2].key = key[c]
    /\ content[c] = NoContent
    /\ result[c] = Rejected(OBJECT_NOT_FOUND_MESSAGE)

\* C7: a call that had a request answered 401 is rejected with the
\* bad-credentials message.
C7_Unauthorized ==
  \A c \in Callers :
    (Settled(c) /\ last[c] = "401")
      => result[c] = Rejected(BAD_CREDENTIALS_MESSAGE)

\* C8: putObject, getObject and removeObject with a key that fails the
\* validity predicate are rejected with the invalid-key message at once and
\* have issued no request.
C8_InvalidKey ==
  \A c \in Callers :
    (op[c] \in {"put", "get", "remove"} /\ ~validStorageKey(key[c]))
      => /\ Settled(c)
         /\ result[c] = Rejected(INVALID_KEY_MESSAGE)
         /\ sent[c] = NoneSent
         /\ ~OwnCreateInFlight(c)

C8_Witness ==
  \E c \in Callers :
    /\ op[c] = "remove" /\ key[c] = KeyDots
    /\ log[c] = <<>> /\ calls[c] > 1 /\ files[KeyDF] # NoFile
    /\ result[c] = Rejected(INVALID_KEY_MESSAGE)

\* C9: a putObject whose fetch was answered with a folder is rejected with
\* the folder-conflict message and has issued no create and no overwrite
\* request.
C9_FolderConflict ==
  \A c \in Callers :
    (Settled(c) /\ op[c] = "put" /\ last[c] = "folder")
      => /\ result[c] = Rejected(REPLACE_FOLDER_MESSAGE)
         /\ sent[c].create = 0 /\ sent[c].replace = 0
         /\ ~OwnCreateInFlight(c)

C9_Witness ==
  \E c \in Callers :
    /\ Settled(c) /\ op[c] = "put" /\ last[c] = "folder" /\ key[c] = KeyD
    /\ IsFolder(files, KeyD)
    /\ result[c] = Rejected(REPLACE_FOLDER_MESSAGE)

\* C10: no call settles while a request it issued is still unanswered.
C10_AwaitsOutcome ==
  \A c \in Callers : Settled(c) => ~OwnCreateInFlight(c)

\* C11: a call that had a request answered with an error that lacks the
\* API-error shape is rejected with the internal-error message.
C11_InternalError ==
  \A c \in Callers :
    (Settled(c) /\ last[c] = "thrown")
      => result[c] = Rejected(INTERNAL_ERROR_MESSAGE)

\* C12: a listObjects call has issued exactly one request when it settles;
\* answered with a file it is rejected with the not-a-folder message;
\* answered with a folder it resolves, and with nothing else writing, to the
\* entries of the folder in the remote's order.
C12_List ==
  \A c \in Callers :
    (Settled(c) /\ op[c] = "list")
      => /\ sent[c] = [NoneSent EXCEPT !.fetch = 1]
         /\ last[c] = "file" => result[c] = Rejected(NOT_A_FOLDER_MESSAGE)
         /\ last[c] = "folder" => result[c].kind = "resolved"
         /\ (last[c] = "folder" /\ Alone(c) /\ quiet[c])
              => result[c] = Resolved(Listing(files, key[c], 1))

\* a folder of two entries was listed, and a file was refused
C12_Witness ==
  \E c \in Callers :
    /\ Settled(c) /\ op[c] = "list" /\ key[c] = KeyD /\ last[c] = "folder"
    /\ result[c].kind = "resolved" /\ Len(result[c].value) = 2
    /\ result[c].value[1].path = KeyDF /\ result[c].value[2].path = PathDG

\* C13: a putObject that has resolved, and has no create of its own still
\* unanswered, had a create or overwrite request accepted by the remote.
C13_ResolvedMeansWritten ==
  \A c \in Callers :
    (Settled(c) /\ op[c] = "put" /\ result[c].kind = "resolved"
       /\ ~OwnCreateInFlight(c))
      => stored[c]

\* C14: a removeObject whose fetch or delete was answered with a classified
\* status other than 404 and 401 is rejected with that error's message, after
\* its one fetch and at most one delete.
StatusOf(kind) ==
  CASE kind = "409" -> 409 [] kind = "422" -> 422 [] kind = "500" -> 500
    [] OTHER -> 0

C14_RemoveVerbatim ==
  \A c \in Callers :
    (Settled(c) /\ op[c] = "remove" /\ last[c] \in {"409", "422", "500"})
      => /\ result[c] = RejectedWith(ApiError(StatusOf(last[c])), "error.message")
         /\ sent[c].fetch = 1 /\ sent[c].delete <= 1
         /\ sent[c].create = 0 /\ sent[c].replace = 0
         /\ ~stored[c]

\* the delete of a fetched file was answered 500
C14_Witness ==
  \E c \in Callers :
    /\ Settled(c) /\ op[c] = "remove" /\ last[c] = "500"
    /\ sent[c].delete = 1 /\ Truthy(sha[c]) /\ IsFile(files, key[c])
    /\ result[c].status = 500 /\ result[c].text = "error.message"

\* C15: a getObject with a valid key sends one fetch and nothing else, while it
\* waits and once it is settled; a folder answer is rejected as a folder, a 404
\* as object-not-found, any other classified status but 401 as the generic
\* API error.
C15_GetOnce ==
  \A c \in Callers :
    (op[c] = "get" /\ validStorageKey(key[c]))
      => /\ pc[c] \in {"get_get", "done"}
         /\ sent[c] = [NoneSent EXCEPT !.fetch = 1]
         /\ Settled(c) =>
              /\ last[c] # "none"
              /\ last[c] = "folder" => result[c] = Rejected(KEY_IS_FOLDER_MESSAGE)
              /\ last[c] = "404" => result[c] = Rejected(OBJECT_NOT_FOUND_MESSAGE)
              /\ last[c] \in {"409", "422", "500"}
                   => result[c] = Rejected(GITHUB_API_ERROR_MESSAGE)

\* a getObject of a missing object, made after an earlier call, was rejected
\* as object-not-found
C15_Witness ==
  \E c \in Callers :
    /\ Settled(c) /\ op[c] = "get" /\ validStorageKey(key[c])
    /\ last[c] = "404" /\ calls[c] > 1 /\ ~IsFile(files, key[c])
    /\ result[c] = Rejected(OBJECT_NOT_FOUND_MESSAGE)

\* C16: each step that sends an overwrite or a delete answers the fetch of the
\* same attempt and sends the digest that this fetch returned; an overwrite
\* follows a file answer, and a create request is added only by the step whose
\* fetch was answered 404, for the key and the call of that fetch.
FetchedNow(c) == RemoteGet(files, key[c])

C16_FreshDigestStep ==
  \A c \in Callers :
    /\ sent'[c].replace > sent[c].replace
         => /\ pc[c] = "put_get" /\ pc'[c] = "put_replace"
            /\ last'[c] = "file" /\ FetchedNow(c).ok
            /\ Truthy(sha'[c]) /\ sha'[c] = FetchedNow(c).data.sha
    /\ pc[c] = "put_replace" => (sha'[c] = sha[c] \/ pc'[c] # "put_replace")
    /\ sent'[c].delete > sent[c].delete
         => /\ pc[c] = "remove_get" /\ pc'[c] = "remove_delete"
            /\ FetchedNow(c).ok
            /\ sha'[c] = FetchedNow(c).data.sha
    /\ pc[c] = "remove_delete" => (sha'[c] = sha[c] \/ pc'[c] # "remove_delete")
    /\ sent'[c].create > sent[c].create
         => /\ pc[c] = "put_get" /\ last'[c] = "404"
            /\ FetchedNow(c) = Fail(ApiError(404))
            /\ creates' = creates \cup {CreateRequest(c)}
    /\ \A q \in creates' \ creates :
         q.caller = c => sent'[c].create > sent[c].create

C16_FreshDigest == [][C16_FreshDigestStep]_vars

\* an overwrite is waiting for its answer with the digest the remote holds
\* now, in a call that follows another call on the same key
C16_Witness ==
  \E c \in Callers :
    /\ pc[c] = "put_replace" /\ Len(log[c]) > 0
    /\ IsFile(files, key[c]) /\ sha[c] = Sha(files[key[c]])
    /\ sent[c].replace = 1

\* C17: the steps of getObject and of listObjects, the start of the call and
\* the handling of the answer, leave what the remote stores and the requests
\* in flight as they are, and count no create, overwrite or delete.
ReadStep(c) ==
  \/ calls'[c] > calls[c] /\ op'[c] \in {"get", "list"}
  \/ pc[c] \in {"get_get", "list_get"} /\ pc'[c] # pc[c]

C17_ReadOnlyStep ==
  \A c \in Callers :
    ReadStep(c)
      => /\ files' = files
         /\ creates' = creates
         /\ sent'[c].create = 0 /\ sent'[c].replace = 0 /\ sent'[c].delete = 0

C17_ReadOnly == [][C17_ReadOnlyStep]_vars

\* a getObject that followed another call returned what a stored file holds,
\* and the file is still there
C17_Witness ==
  \E c \in Callers :
    /\ Settled(c) /\ op[c] = "get" /\ calls[c] > 1
    /\ last[c] = "file" /\ IsFile(files, key[c])
    /\ result[c] = Resolved(convertBase64ToString(files[key[c]]))

\* C18: every step inside a removeObject call moves the call strictly forward,
\* from the fetch to the delete or to the end and from the delete to the end,
\* so that the call has sent one fetch and one delete at most and cannot run
\* for ever.
Rank(p) ==
  CASE p = "remove_get" -> 2 [] p = "remove_delete" -> 1 [] OTHER -> 0

C18_RemoveStep ==
  \A c \in Callers :
    (op[c] = "remove" /\ calls'[c] = calls[c]
       /\ <<pc'[c], sent'[c]>> # <<pc[c], sent[c]>>)
      => /\ Rank(pc'[c]) < Rank(pc[c])
         /\ sent'[c].fetch <= 1 /\ sent'[c].delete <= 1
         /\ pc'[c] = "done" => result'[c] # Pending

C18_RemoveTerminates == [][C18_RemoveStep]_vars

\* a removeObject left the loop through the flag, after a fetch answered 404
C18_Witness ==
  \E c \in Callers :
    /\ Settled(c) /\ op[c] = "remove" /\ success[c]
    /\ last[c] = "404" /\ sent[c] = [NoneSent EXCEPT !.fetch = 1]
====
